---- MODULE Spec2Model ----
(***************************************************************************)
(* ORGACO record manager: the spreadsheet-backed app (streamlit_app.py)    *)
(* and the relational app (app.py).  A deployment runs one of the two      *)
(* scripts; `variant` says which.  The spreadsheet app keeps, per browser  *)
(* session, a DataFrame in st.session_state, reads the sheet through two   *)
(* caches (st.cache_data around load_data, and the ttl of conn.read) and   *)
(* writes the whole DataFrame back on every mutation.                      *)
(***************************************************************************)
EXTENDS Integers, Sequences, FiniteSets, TLC

\* ------------------------------------------------------------------ bounds
MaxDay == 1           \* days the clock may advance (day 0 .. MaxDay)
StartYear == 2025     \* calendar year of day 0
DaysPerYear == 1      \* modelled days in a calendar year
MaxRelRows == 3       \* rows of the relational table
MaxRelUpdates == 2    \* update_record calls explored
MaxWrites == 2        \* write_data calls explored

\* --------------------------------------------------------------- constants
MinYear == 1900       \* min_value of both year widgets

\* One browser session at a time uses the app; closing or reloading the tab
\* (SessionEnd) starts it afresh.
Sessions == {1}

\* date.today().year
YearOf(day) == StartYear + (day \div DaysPerYear)

\* ------------------------------------------------------------------ columns
COLUMNS ==
  << "Group_Association", "President_Name", "President_Email", "President_Contact",
     "Secretary_Name", "Secretary_Email", "Secretary_Contact", "Treasurer_Name",
     "Treasurer_Email", "Treasurer_Contact", "Last_Fee_Paid_Year", "Web_Data_Updated" >>

ColumnSet == { COLUMNS[i] : i \in 1..Len(COLUMNS) }

ContactColumns == ColumnSet \ {"Group_Association", "Last_Fee_Paid_Year", "Web_Data_Updated"}

\* ------------------------------------------------------------- cell values
\* Every cell is a pair <<kind, value>> so that cells of different kinds compare.
NaN == << "nan", 0 >>             \* an empty cell / pandas missing value
IntCell(n) == << "int", n >>      \* a number
BadYear == << "str", 0 >>         \* a year cell holding text that int() rejects
IsoDate(day) == << "iso", day >>  \* 'YYYY-MM-DD'
AltDate(day) == << "alt", day >>  \* the same day typed in another date format
JunkDate == << "junk", 0 >>       \* text that is no date

\* date.today().strftime('%Y-%m-%d')
Strftime(day) == IsoDate(day)

\* pd.to_datetime(cell, errors='coerce').dt.strftime('%Y-%m-%d')
NormalizeDate(cell) ==
  IF cell[1] \in {"iso", "alt"} THEN Strftime(cell[2]) ELSE NaN

\* df['Last_Fee_Paid_Year'].fillna(0): a missing year becomes 0
FillNa(cell) == IF cell = NaN THEN IntCell(0) ELSE cell

\* .astype(int) raises on a cell that is no number
YearConvertible(cell) == cell[1] # "str"

NormalizeRow(r) ==
  [c \in ColumnSet |->
     IF c = "Last_Fee_Paid_Year" THEN FillNa(r[c])
     ELSE IF c = "Web_Data_Updated" THEN NormalizeDate(r[c])
     ELSE r[c]]

\* pd.DataFrame(columns=COLUMNS)
EmptyDF == << >>

\* the body of load_data after conn.read returned `raw`
CleanSheet(raw) ==
  IF \A i \in 1..Len(raw) : YearConvertible(raw[i]["Last_Fee_Paid_Year"])
  THEN [i \in 1..Len(raw) |-> NormalizeRow(raw[i])]
  ELSE EmptyDF

NamesOf(d) == { d[i]["Group_Association"] : i \in 1..Len(d) }

\* df['Group_Association'].sort_values().unique().tolist(), offered by the selectbox
group_options(d) == NamesOf(d)

\* ...index[0]: the first row whose Group_Association is the selected name
idx_to_update(d, g) ==
  CHOOSE i \in 1..Len(d) :
    /\ d[i]["Group_Association"] = g
    /\ \A j \in 1..(i - 1) : d[j]["Group_Association"] # g


\* ------------------------------------------------------------------- inputs
GroupNames == {"A", "B"}

\* what a user can type into the name box of the spreadsheet form
NameInputs == GroupNames \cup {""}

OldContacts == [c \in ContactColumns |-> "old"]
TypedContacts == [c \in ContactColumns |-> c]

\* what a user can type into the nine contact boxes
ContactInputs == {TypedContacts}

\* years a user can try to enter, on both sides of both widget bounds
YearInputs(day) == {MinYear - 1, MinYear, YearOf(day) + 1, YearOf(day) + 2}

SheetRow(name, year, updated) ==
  [c \in ColumnSet |->
     IF c = "Group_Association" THEN name
     ELSE IF c = "Last_Fee_Paid_Year" THEN year
     ELSE IF c = "Web_Data_Updated" THEN updated
     ELSE OldContacts[c]]

\* sheets the app can be pointed at: group names are pairwise distinct,
\* a year is a number within the bound, missing, or text
InitSheets ==
  { << SheetRow("A", NaN, JunkDate) >>,
    << SheetRow("A", BadYear, IsoDate(0)) >>,
    << SheetRow("A", IntCell(StartYear), IsoDate(0)),
       SheetRow("B", IntCell(MinYear), AltDate(0)) >> }

\* -------------------------------------------------------------------- state
VARIABLES
  variant,      \* which script the process runs: "sheet" or "relational"
  today,        \* date.today(), a day number
  backend,      \* the worksheet: a sequence of rows
  inState,      \* sessions with 'df_orgaco' in st.session_state
  df,           \* st.session_state.df_orgaco of each session
  loadCache,    \* st.cache_data entry of load_data: [has, val]
  connCache,    \* cached result of conn.read(..., ttl=600): [has, val]
  table,        \* relational variant: rows of the table
  nextId,       \* relational variant: next value of the id sequence
  relUpdates,   \* relational variant: update_record calls made
  writes,       \* write_data calls made
  last,         \* history: the operation just performed and the state before it
  failed,       \* history: rows produced by updates whose write failed, while a
                \* session's dataset still holds them
  lastWritten   \* history: dataset of the latest successful write, until the next load

vars == << variant, today, backend, inState, df, loadCache, connCache,
           table, nextId, relUpdates, writes, last, failed, lastWritten >>

sheetVars == << backend, inState, df, loadCache, connCache, writes, failed, lastWritten >>
relVars == << table, nextId, relUpdates >>

Empty == [has |-> FALSE, val |-> << >>]

\* the nine contact boxes as the forms show them before anything is typed
NoContacts == [c \in ContactColumns |-> ""]
Cached(d) == [has |-> TRUE, val |-> d]

\* the record kept in `last`: a handler's inputs, its outcome and the state it
\* started from
Op(op, res, s, g, y, typed, idx, col) ==
  [op |-> op, res |-> res, s |-> s, g |-> g, y |-> y, typed |-> typed, idx |-> idx, col |-> col,
   df0 |-> df[s], backend0 |-> backend, writes0 |-> writes, table0 |-> table,
   expect |-> lastWritten, contacts |-> NoContacts]

\* the record kept in `last` by a step that is no handler
Idle(op) ==
  [op |-> op, res |-> "", s |-> 0, g |-> "", y |-> 0, typed |-> FALSE, idx |-> 0, col |-> "",
   df0 |-> << >>, backend0 |-> backend, writes0 |-> writes, table0 |-> table,
   expect |-> Empty, contacts |-> NoContacts]

RowsOf(d) == { d[i] : i \in 1..Len(d) }

\* the rows of `rows` that the dataset of some session in `live` holds
Held(rows, dfs, live) == { r \in rows : \E s \in live : r \in RowsOf(dfs[s]) }

\* ------------------------------------------------------------- load_data
\* The cached function: a hit returns the stored value without running the body.
\* The body reads through the connection's own ttl cache, cleans the sheet and
\* returns; an exception anywhere in it returns the empty dataset.  Either way
\* the returned value is what st.cache_data stores.
load_data(connOk) ==
  LET raw == IF connCache.has THEN connCache.val ELSE backend
      result == IF loadCache.has THEN loadCache.val
                ELSE IF connOk THEN CleanSheet(raw) ELSE EmptyDF
  IN [ result |-> result,
       res |-> IF loadCache.has THEN "cached"
               ELSE IF ~connOk THEN "read_failed"
               ELSE IF result = EmptyDF /\ raw # << >> THEN "clean_failed"
               ELSE "read",
       loadCache |-> Cached(result),
       connCache |-> IF ~loadCache.has /\ connOk THEN Cached(raw) ELSE connCache ]

\* if 'df_orgaco' not in st.session_state: st.session_state.df_orgaco = load_data()
SessionInit(s) ==
  /\ variant = "sheet"
  /\ s \notin inState
  /\ \E connOk \in BOOLEAN :
       LET r == load_data(connOk) IN
       /\ df' = [df EXCEPT ![s] = r.result]
       /\ loadCache' = r.loadCache
       /\ connCache' = r.connCache
       /\ last' = Op("load", r.res, s, "", 0, FALSE, 0, "")
  /\ inState' = inState \cup {s}
  /\ lastWritten' = Empty
  /\ UNCHANGED << variant, today, backend, writes, failed, relVars >>

\* the browser tab is closed or reloaded: its session state is dropped
SessionEnd(s) ==
  /\ variant = "sheet"
  /\ s \in inState
  /\ inState' = inState \ {s}
  /\ df' = [df EXCEPT ![s] = << >>]
  /\ failed' = Held(failed, df', inState')
  /\ last' = Idle("idle")
  /\ UNCHANGED << variant, today, backend, loadCache, connCache, writes, lastWritten, relVars >>

\* 600 seconds pass: both cached reads expire
TtlExpire ==
  /\ variant = "sheet"
  /\ loadCache.has \/ connCache.has
  /\ loadCache' = Empty
  /\ connCache' = Empty
  /\ last' = Idle("idle")
  /\ UNCHANGED << variant, today, backend, inState, df, writes, failed, lastWritten, relVars >>

\* midnight passes: date.today() advances, and every ttl has run out
AdvanceDay ==
  /\ variant = "sheet"
  /\ today < MaxDay
  /\ today' = today + 1
  /\ loadCache' = Empty
  /\ connCache' = Empty
  /\ last' = Idle("idle")
  /\ UNCHANGED << variant, backend, inState, df, writes, failed, lastWritten, relVars >>

\* --------------------------------------------------------------- write_data
\* conn.write overwrites the whole worksheet with the DataFrame and write_data
\* returns True; an exception leaves the worksheet alone and returns False.
write_data(d, writeOk) == IF writeOk THEN d ELSE backend

\* df[df['Group_Association'] == selected_group_name]
selected_row(d, name) ==
  SelectSeq(d, LAMBDA r : r["Group_Association"] = name)

\* ------------------------------------------------------ Search & Update tab
\* selected_row.drop(columns=['Group_Association', 'Web_Data_Updated'])
EditorColumns == ColumnSet \ {"Group_Association", "Web_Data_Updated"}

\* NumberColumn(min_value=1900, max_value=date.today().year + 1)
EditorYearAccepts(y, day) == MinYear <= y /\ y <= YearOf(day) + 1

\* the edit applied without the timestamp line
ApplyEditNoStamp(d, idx, edited, day) ==
  [d EXCEPT ![idx] =
     [c \in ColumnSet |-> IF c \in DOMAIN edited THEN edited[c] ELSE @[c]]]

\* for col in edited_series.index: df.loc[idx, col] = edited_series[col]
\* df.loc[idx, 'Web_Data_Updated'] = date.today().strftime('%Y-%m-%d')
ApplyEdit(d, idx, edited, day) ==
  [d EXCEPT ![idx] =
     [c \in ColumnSet |->
        IF c = "Web_Data_Updated" THEN Strftime(day)
        ELSE IF c \in DOMAIN edited THEN edited[c]
        ELSE @[c]]]

\* The "Save Changes" button of one session, with what the user left in the
\* editor: the nine contact cells and the year cell.  The editor refuses a year
\* outside its bounds, so such a year never reaches the handler; a year cell the
\* user did not touch keeps the value of the row.
SaveChanges(s) ==
  /\ variant = "sheet"
  /\ s \in inState
  /\ \E g \in group_options(df[s]) :
     /\ g # ""
     /\ LET idx == idx_to_update(df[s], g)
            row == df[s][idx]
        IN \/ \E y \in YearInputs(today) :
                /\ ~EditorYearAccepts(y, today)
                /\ last' = Op("update", "year_rejected", s, "", y, TRUE, 0, "")
                /\ UNCHANGED sheetVars
           \/ \E contacts \in ContactInputs \cup {[c \in ContactColumns |-> row[c]]},
                 typed \in BOOLEAN, writeOk \in BOOLEAN :
              \E y \in IF typed THEN { v \in YearInputs(today) : EditorYearAccepts(v, today) }
                       ELSE { row["Last_Fee_Paid_Year"][2] } :
                LET edited == [c \in EditorColumns |->
                                 IF c = "Last_Fee_Paid_Year" THEN IntCell(y) ELSE contacts[c]]
                    d1 == ApplyEdit(df[s], idx, edited, today)
                IN /\ writes < MaxWrites
                   /\ writes' = writes + 1
                   /\ df' = [df EXCEPT ![s] = d1]
                   /\ backend' = write_data(d1, writeOk)
                   /\ loadCache' = IF writeOk THEN Empty ELSE loadCache
                   /\ lastWritten' = IF writeOk THEN Cached(d1) ELSE lastWritten
                   /\ failed' = Held(IF writeOk
                                     THEN { r \in failed : r["Group_Association"] # g }
                                     ELSE failed \cup ({d1[idx]} \ RowsOf(backend)),
                                     df', inState)
                   /\ last' = Op("update", IF writeOk THEN "written" ELSE "write_failed",
                                 s, g, y, typed, idx, "")
                   /\ UNCHANGED << inState, connCache >>
  /\ UNCHANGED << variant, today, relVars >>

\* --------------------------------------------------------- Add New Group tab
\* number_input(min_value=1900, max_value=date.today().year)
FeeYearAccepts(y, day) == MinYear <= y /\ y <= YearOf(day)

\* the membership test left out
NameExistsNever(name, d) == FALSE

\* new_group_name in st.session_state.df_orgaco['Group_Association'].tolist()
NameExists(name, d) == \E i \in 1..Len(d) : d[i]["Group_Association"] = name

\* new_data with the president's name also stored as the president's email
new_data_mixed(name, contacts, y, day) ==
  [c \in ColumnSet |->
     IF c = "Group_Association" THEN name
     ELSE IF c = "Last_Fee_Paid_Year" THEN IntCell(y)
     ELSE IF c = "Web_Data_Updated" THEN Strftime(day)
     ELSE IF c = "President_Email" THEN contacts["President_Name"]
     ELSE contacts[c]]

\* new_data, as a row
new_data(name, contacts, y, day) ==
  [c \in ColumnSet |->
     IF c = "Group_Association" THEN name
     ELSE IF c = "Last_Fee_Paid_Year" THEN IntCell(y)
     ELSE IF c = "Web_Data_Updated" THEN Strftime(day)
     ELSE contacts[c]]

\* The "Add New Group" form of one session, submitted.  The number input
\* refuses a year outside its bounds, so such a year never reaches the handler.
Insert(s) ==
  /\ variant = "sheet"
  /\ s \in inState
  /\ \/ \E y \in YearInputs(today) :
          /\ ~FeeYearAccepts(y, today)
          /\ last' = Op("insert", "year_rejected", s, "", y, TRUE, 0, "")
          /\ UNCHANGED sheetVars
     \/ \E name \in NameInputs, y \in YearInputs(today) :
          /\ FeeYearAccepts(y, today)
          /\ IF name = ""
             THEN /\ last' = Op("insert", "name_required", s, name, y, TRUE, 0, "")
                  /\ UNCHANGED sheetVars
             ELSE IF NameExists(name, df[s])
             THEN /\ last' = Op("insert", "duplicate", s, name, y, TRUE, 0, "")
                  /\ UNCHANGED sheetVars
             ELSE \E contacts \in ContactInputs, writeOk \in BOOLEAN :
                  LET d1 == Append(df[s], new_data(name, contacts, y, today)) IN
                  /\ writes < MaxWrites
                  /\ writes' = writes + 1
                  /\ df' = [df EXCEPT ![s] = d1]
                  /\ backend' = write_data(d1, writeOk)
                  /\ loadCache' = IF writeOk THEN Empty ELSE loadCache
                  /\ lastWritten' = IF writeOk THEN Cached(d1) ELSE lastWritten
                  /\ last' = [Op("insert", IF writeOk THEN "written" ELSE "write_failed",
                                 s, name, y, TRUE, Len(d1), "")
                               EXCEPT !.contacts = contacts]
                  /\ UNCHANGED << inState, connCache, failed >>
  /\ UNCHANGED << variant, today, relVars >>

\* ------------------------------------------------------- relational variant
\* The table behind app.py: the primary key, the group name and the other
\* columns (the script reads them with SELECT * and treats them alike; two stand
\* for them here).
RelColumns == << "id", "Group_Association", "President_Name", "Last_Fee_Paid_Year" >>

RelColumnSet == { RelColumns[i] : i \in 1..Len(RelColumns) }

pk_column == "id"

\* the list with the group name left out
only_pk_non_editable == {pk_column}

\* non_editable_cols = [pk_column, 'Group_Association']
non_editable_cols == {pk_column, "Group_Association"}

Null == "NULL"                       \* a column the INSERT left unset

\* str(current_value)
Str(cell) == IF cell = Null THEN "None" ELSE cell

\* what a user can type into the name box, and new_group_input.strip() of it
RelNameInputs == {"", " ", "A", " A", "B"}

Strip(text) ==
  CASE text = " " -> ""
    [] text = " A" -> "A"
    [] OTHER -> text

\* what a user can type into a column's text box
RelTextInputs == {"x", "None"}

RelRow(id, name) ==
  [c \in RelColumnSet |->
     IF c = pk_column THEN id
     ELSE IF c = "Group_Association" THEN name
     ELSE Null]

RelOp(op, res, g, idx, col) ==
  [op |-> op, res |-> res, s |-> 0, g |-> g, y |-> 0, typed |-> FALSE, idx |-> idx, col |-> col,
   df0 |-> << >>, backend0 |-> backend, writes0 |-> writes, table0 |-> table,
   expect |-> Empty, contacts |-> NoContacts]

\* SELECT DISTINCT "Group_Association" ..., offered after the blank choice
fetch_group_associations == { table[i]["Group_Association"] : i \in 1..Len(table) }

\* SELECT * ... WHERE "Group_Association" = :group_name, as row positions
fetch_data_by_group(group_name) ==
  { i \in 1..Len(table) : table[i]["Group_Association"] = group_name }

\* UPDATE ... SET column_name = :new_value WHERE id = :record_id; an exception
\* is reported and changes nothing
update_record(record_id, column_name, new_value, dbOk) ==
  IF dbOk
  THEN [i \in 1..Len(table) |->
          IF table[i][pk_column] = record_id
          THEN [table[i] EXCEPT ![column_name] = new_value]
          ELSE table[i]]
  ELSE table

\* The record edit loop: for a selected group, each column of each of its rows
\* is either shown read-only or offered in a text box whose "Save" button
\* appears once the text differs from the current value.
RelSave ==
  /\ variant = "relational"
  /\ relUpdates < MaxRelUpdates
  /\ \E selected_group \in fetch_group_associations :
     /\ selected_group # ""
     /\ \E i \in fetch_data_by_group(selected_group), col \in RelColumnSet,
           new_value \in RelTextInputs, dbOk \in BOOLEAN :
          /\ col \notin non_editable_cols
          /\ Str(new_value) # Str(table[i][col])
          /\ table' = update_record(table[i][pk_column], col, new_value, dbOk)
          /\ last' = RelOp("rel_update", IF dbOk THEN "written" ELSE "write_failed",
                           selected_group, i, col)
  /\ relUpdates' = relUpdates + 1
  /\ UNCHANGED << variant, today, nextId, sheetVars >>

\* INSERT INTO ... ("Group_Association") VALUES (:new_group); an exception is
\* reported and changes nothing
add_new_group(new_group_name, dbOk) ==
  IF dbOk THEN Append(table, RelRow(nextId, new_group_name)) ELSE table

\* The "Add New Group" form of app.py, submitted.
RelAdd ==
  /\ variant = "relational"
  /\ \E new_group_input \in RelNameInputs :
       IF new_group_input # ""
       THEN \E dbOk \in BOOLEAN :
            /\ Len(table) < MaxRelRows
            /\ table' = add_new_group(Strip(new_group_input), dbOk)
            /\ nextId' = IF dbOk THEN nextId + 1 ELSE nextId
            /\ last' = RelOp("rel_insert", IF dbOk THEN "written" ELSE "write_failed",
                             Strip(new_group_input), Len(table'), "")
       ELSE /\ last' = RelOp("rel_insert", "name_required", "", 0, "")
            /\ UNCHANGED << table, nextId >>
  /\ UNCHANGED << variant, today, relUpdates, sheetVars >>

\* ---------------------------------------------------------------- behaviour
Init ==
  /\ variant \in {"sheet", "relational"}
  /\ today = 0
  /\ backend \in (IF variant = "sheet" THEN InitSheets ELSE {<< >>})
  /\ inState = {}
  /\ df = [s \in Sessions |-> << >>]
  /\ loadCache = Empty
  /\ connCache = Empty
  /\ table = (IF variant = "relational" THEN << RelRow(1, "A") >> ELSE << >>)
  /\ nextId = 2
  /\ relUpdates = 0
  /\ writes = 0
  /\ failed = {}
  /\ lastWritten = Empty
  /\ last = Idle("init")

Next ==
  \/ \E s \in Sessions : SessionInit(s)
  \/ \E s \in Sessions : SessionEnd(s)
  \/ \E s \in Sessions : SaveChanges(s)
  \/ \E s \in Sessions : Insert(s)
  \/ TtlExpire
  \/ AdvanceDay
  \/ RelSave
  \/ RelAdd

Spec == Init /\ [][Next]_vars

\* ------------------------------------------------------------------- claims
Handled == last.op \in {"update", "insert"}
Wrote == Handled /\ last.res = "written"
Distinct(names, n) == Cardinality(names) = n

\* C1: a spreadsheet insert whose group name is empty or is already the
\* Group_Association of a row of the session's dataset is rejected: write_data
\* is not called, and the dataset and the worksheet are as before the submit.
C1_RejectedInsertChangesNothing ==
  (last.op = "insert" /\ (last.g = "" \/ last.g \in NamesOf(last.df0))) =>
     /\ last.res \in {"name_required", "duplicate", "year_rejected"}
     /\ writes = last.writes0
     /\ backend = last.backend0
     /\ df[last.s] = last.df0

C1_Witness ==
  /\ last.op = "insert"
  /\ last.res = "duplicate"
  /\ last.g \in NamesOf(backend)
  /\ Len(df[last.s]) = 2

\* C2: after a spreadsheet insert whose write failed, the new record is not in
\* the session's dataset, nor its name in the group list derived from it.
C2_FailedInsertRolledBack ==
  (last.op = "insert" /\ last.res = "write_failed") =>
     /\ last.g \notin group_options(df[last.s])
     /\ df[last.s] = last.df0

\* C3: a failed update write leaves the worksheet as it was, and the row that
\* update produced is never put on the worksheet by a later successful write of
\* another operation (an insert, or an update of another group).
C3_FailedUpdateNeverLeaks ==
  /\ (last.op = "update" /\ last.res = "write_failed") => backend = last.backend0
  /\ Wrote =>
       \A r \in failed :
          r \in RowsOf(backend) =>
             \/ r \in RowsOf(last.backend0)
             \/ (last.op = "insert" /\ r = backend[last.idx])

\* C4: no operation removes a group from the worksheet: every group name on it
\* before a load, update or insert is on it afterwards.
C4_NeverDeleted == NamesOf(last.backend0) \subseteq NamesOf(backend)

\* C5: group names stay pairwise distinct in the backend of either variant.
C5_GroupNamesUnique ==
  /\ Distinct(NamesOf(backend), Len(backend))
  /\ Distinct(fetch_group_associations, Len(table))

\* C6: the first load_data call that reads the sheet after a successful write
\* returns the dataset that write put there, TTL expired or not.
C6_LoadAfterWriteIsFresh ==
  (last.op = "load" /\ last.expect.has /\ last.res \in {"read", "cached"}) =>
     df[last.s] = last.expect.val

\* C7: both spreadsheet forms accept a typed year y exactly when
\* 1900 <= y <= current year + 1, and a refused year writes and changes nothing.
C7_YearBoundary ==
  (Handled /\ last.typed) =>
     /\ (last.res = "year_rejected") <=>
          ~(MinYear <= last.y /\ last.y <= YearOf(today) + 1)
     /\ (last.res = "year_rejected") =>
          /\ writes = last.writes0
          /\ backend = last.backend0
          /\ df[last.s] = last.df0

\* C8: every row of every session's dataset has its year within
\* [1900, current year + 1].
C8_YearsWithinBound ==
  \A s \in inState : \A i \in 1..Len(df[s]) :
     LET y == df[s][i]["Last_Fee_Paid_Year"][2]
     IN MinYear <= y /\ y <= YearOf(today) + 1

\* C9: a successful update or insert writes the session's dataset with the
\* touched row stamped with today's date, whatever the user entered (the editor
\* has no Web_Data_Updated cell), and every other row's stamp as the dataset
\* had it before the submit.
C9_StampOnlyTheTouchedRow ==
  /\ "Web_Data_Updated" \notin EditorColumns
  /\ Wrote =>
       /\ backend = df[last.s]
       /\ last.idx \in 1..Len(backend)
       /\ backend[last.idx]["Group_Association"] = last.g
       /\ backend[last.idx]["Web_Data_Updated"] = IsoDate(today)
       /\ \A i \in 1..Len(last.df0) :
            i # last.idx =>
              backend[i]["Web_Data_Updated"] = last.df0[i]["Web_Data_Updated"]

C9_Witness ==
  /\ last.op = "update"
  /\ last.res = "written"
  /\ today = 1
  /\ Len(backend) = 2
  /\ \E i \in 1..2 : backend[i]["Web_Data_Updated"] # IsoDate(today)
  /\ last.df0[last.idx]["Web_Data_Updated"] # IsoDate(today)

\* C10: Save Changes, whether or not its write succeeds, keeps the selected
\* row's Group_Association, every other row and the number and order of rows of
\* the session's dataset; the relational edit loop never calls update_record
\* for the id or Group_Association column, so those columns keep their values.
C10_UpdateFrame ==
  /\ (last.op = "update" /\ last.res # "year_rejected") =>
       /\ Len(df[last.s]) = Len(last.df0)
       /\ df[last.s][last.idx]["Group_Association"] = last.g
       /\ last.df0[last.idx]["Group_Association"] = last.g
       /\ \A i \in 1..Len(last.df0) : i # last.idx => df[last.s][i] = last.df0[i]
  /\ last.op = "rel_update" =>
       /\ last.col \notin {"id", "Group_Association"}
       /\ Len(table) = Len(last.table0)
       /\ \A i \in 1..Len(table) :
            /\ table[i]["id"] = last.table0[i]["id"]
            /\ table[i]["Group_Association"] = last.table0[i]["Group_Association"]

C10_Witness ==
  /\ last.op = "rel_update"
  /\ last.res = "written"
  /\ Len(table) = 2
  /\ table # last.table0

\* C11: after a successful spreadsheet insert of a record with a non-empty
\* name that the session's dataset did not hold and a year the form accepts,
\* looking the name up in the session's dataset, and in what load_data makes
\* of the worksheet when it reads it anew, finds exactly one row: the eleven
\* submitted fields as submitted and Web_Data_Updated today's date.
C11_InsertRoundTrip ==
  (last.op = "insert" /\ last.res = "written") =>
     LET r == [c \in ColumnSet |->
                 IF c = "Group_Association" THEN last.g
                 ELSE IF c = "Last_Fee_Paid_Year" THEN IntCell(last.y)
                 ELSE IF c = "Web_Data_Updated" THEN IsoDate(today)
                 ELSE last.contacts[c]]
     IN /\ last.g # ""
        /\ last.g \notin NamesOf(last.df0)
        /\ selected_row(df[last.s], last.g) = << r >>
        /\ selected_row(CleanSheet(backend), last.g) = << r >>

C11_Witness ==
  /\ last.op = "insert"
  /\ last.res = "written"
  /\ Len(last.df0) = 1
  /\ today = 1
  /\ last.contacts = TypedContacts
  /\ Len(CleanSheet(backend)) = 2

====
